---- MODULE Spec2Model ----
(***************************************************************************)
(* Model of chinook_mcp_server.py: the start-up bootstrap of the dataset   *)
(* file, the read-only query tool and the two schema resources.            *)
(* Texts are sequences of one-character strings, so that strip, upper,     *)
(* startswith, join and the f-string splices are computed, not assumed.    *)
(***************************************************************************)
EXTENDS Integers, Sequences, FiniteSets, TLC

VARIABLES phase, fs, openConns, legacyDriver, ret

vars == <<phase, fs, openConns, legacyDriver, ret>>

\* ------------------------------------------------------------------ bounds
\* connections left open by earlier calls that the model keeps track of
MaxOpen == 2

\* ------------------------------------------------------------ text helpers
Whitespace == {" ", "\t", "\n"}

LowerChars == <<"a","b","c","d","e","f","g","h","i","j","k","l","m","n","o","p","q","r","s","t","u","v","w","x","y","z">>
UpperChars == <<"A","B","C","D","E","F","G","H","I","J","K","L","M","N","O","P","Q","R","S","T","U","V","W","X","Y","Z">>

\* str.upper() on one character
UpperChar(c) ==
  IF \E i \in 1..Len(LowerChars) : LowerChars[i] = c
  THEN UpperChars[CHOOSE i \in 1..Len(LowerChars) : LowerChars[i] = c]
  ELSE c

\* str.upper()
Upper(s) == [i \in 1..Len(s) |-> UpperChar(s[i])]

\* str.lstrip() / str.rstrip() / str.strip()
RECURSIVE LStrip(_)
LStrip(s) == IF s # <<>> /\ Head(s) \in Whitespace THEN LStrip(Tail(s)) ELSE s

RECURSIVE RStrip(_)
RStrip(s) ==
  IF s # <<>> /\ s[Len(s)] \in Whitespace THEN RStrip(SubSeq(s, 1, Len(s) - 1)) ELSE s

Strip(s) == RStrip(LStrip(s))

\* str.startswith / str.endswith
StartsWith(s, p) == Len(s) >= Len(p) /\ SubSeq(s, 1, Len(p)) = p

EndsWith(s, p) == Len(s) >= Len(p) /\ SubSeq(s, Len(s) - Len(p) + 1, Len(s)) = p

\* sep.join(parts)
RECURSIVE Join(_, _)
Join(parts, sep) ==
  IF parts = <<>> THEN <<>>
  ELSE IF Len(parts) = 1 THEN parts[1]
  ELSE parts[1] \o sep \o Join(Tail(parts), sep)

\* "-" * n
Repeat(c, n) == [i \in 1..n |-> c]

\* str(n) for a non-negative integer
Digits == <<"0","1","2","3","4","5","6","7","8","9">>

RECURSIVE StrInt(_)
StrInt(n) == IF n < 10 THEN <<Digits[n + 1]>> ELSE StrInt(n \div 10) \o <<Digits[(n % 10) + 1]>>

\* a cell of a fetched row: an INTEGER, a TEXT or NULL
IntCell(n)  == [t |-> "int",  n |-> n, s |-> <<>>]
TextCell(s) == [t |-> "text", n |-> 0, s |-> s]
NullCell    == [t |-> "null", n |-> 0, s |-> <<>>]

\* str(value) as applied by map(str, row)
Str(cell) ==
  CASE cell.t = "int"  -> StrInt(cell.n)
    [] cell.t = "text" -> cell.s
    [] OTHER           -> <<"N","o","n","e">>

\* the pieces of a text between whitespace runs (SQL tokens of the model)
RECURSIVE Words(_)
Words(s) ==
  LET t == LStrip(s) IN
  IF t = <<>> THEN <<>>
  ELSE LET n == IF \E i \in 1..Len(t) : t[i] \in Whitespace
                THEN (CHOOSE i \in 1..Len(t) :
                        t[i] \in Whitespace /\ \A j \in 1..(i - 1) : t[j] \notin Whitespace) - 1
                ELSE Len(t)
       IN <<SubSeq(t, 1, n)>> \o Words(SubSeq(t, n + 1, Len(t)))

\* ---------------------------------------------------------------- dataset
\* a column as PRAGMA table_info reports it: name, type, notnull, dflt_value, pk
Col(name, type, pk, notnull, hasDflt, dflt) ==
  [name |-> name, type |-> type, pk |-> pk, notnull |-> notnull,
   hasDflt |-> hasDflt, dflt |-> dflt]

Table(name, cols, rows) == [name |-> name, cols |-> cols, rows |-> rows]

\* a dataset: its tables in catalog (sqlite_master) order
EmptyDb == [tables |-> <<>>]

DbMusic ==
  [tables |-> <<
     Table(<<"A","r","t","i","s","t">>,
           <<Col(<<"A","r","t","i","s","t","I","d">>, <<"I","N","T","E","G","E","R">>, 1, 1, FALSE, <<>>),
             Col(<<"N","a","m","e">>, <<"N","V","A","R","C","H","A","R","(","1","2","0",")">>, 0, 0, FALSE, <<>>)>>,
           <<<<IntCell(1), TextCell(<<"A","C","/","D","C">>)>>, <<IntCell(12), NullCell>>>>),
     Table(<<"s","q","l","i","t","e","_","s","e","q","u","e","n","c","e">>,
           <<Col(<<"n","a","m","e">>, <<>>, 0, 0, FALSE, <<>>), Col(<<"s","e","q">>, <<>>, 0, 0, FALSE, <<>>)>>,
           <<<<TextCell(<<"A","r","t","i","s","t">>), IntCell(12)>>>>),
     Table(<<"S","e","l","e","c","t","e","d">>,
           <<Col(<<"I","d">>, <<"I","N","T","E","G","E","R">>, 1, 0, FALSE, <<>>)>>,
           <<>>) >>]

DbQuote ==
  [tables |-> <<
     Table(<<"t">>,
           <<Col(<<"i","d">>, <<"I","N","T","E","G","E","R">>, 1, 1, TRUE, <<"7">>),
             Col(<<"n","a","m","e">>, <<"T","E","X","T">>, 0, 1, TRUE, <<"'","x","'">>)>>,
           <<<<IntCell(7), TextCell(<<"x">>)>>>>),
     Table(<<"a","'","b">>,
           <<Col(<<"c">>, <<"I","N","T">>, 0, 0, FALSE, <<>>)>>,
           <<>>) >>]

DbDouble ==
  [tables |-> <<
     Table(<<"x","'","'","y">>,
           <<Col(<<"c">>, <<"I","N","T">>, 0, 0, FALSE, <<>>)>>,
           <<<<IntCell(0)>>>>) >>]

Datasets == {EmptyDb, DbMusic, DbQuote, DbDouble}

\* ----------------------------------------------------- the storage engine
\* name LIKE 'sqlite_%': "_" matches any one character, LIKE folds ASCII case
LikeSqlitePrefix(name) == Len(name) >= 7 /\ Upper(SubSeq(name, 1, 6)) = <<"S","Q","L","I","T","E">>

\* index of the table called name (table names are case-insensitive), or 0
FindTable(db, name) ==
  IF \E i \in 1..Len(db.tables) : Upper(db.tables[i].name) = Upper(name)
  THEN CHOOSE i \in 1..Len(db.tables) : Upper(db.tables[i].name) = Upper(name)
  ELSE 0

RemoveAt(seq, i) == SubSeq(seq, 1, i - 1) \o SubSeq(seq, i + 1, Len(seq))

\* the outcome of one cursor.execute: exc is "none", "sqlite" (a subclass of
\* sqlite3.Error) or "other" (any other Exception)
EngineRows(db, cols, rows) == [exc |-> "none", msg |-> <<>>, cols |-> cols, rows |-> rows, db |-> db]

EngineError(db, exc, msg) == [exc |-> exc, msg |-> msg, cols |-> <<>>, rows |-> <<>>, db |-> db]

\* the statement text without surrounding whitespace and one closing ";"
StatementBody(text) ==
  LET s == Strip(text) IN
  IF s # <<>> /\ s[Len(s)] = ";" THEN RStrip(SubSeq(s, 1, Len(s) - 1)) ELSE s

\* cursor.execute(text) for the statement forms of the model: SELECT 1,
\* SELECT * FROM <table>, DROP TABLE <table>; anything else is a syntax error.
\* More than one statement is refused by the driver: sqlite3.ProgrammingError,
\* and sqlite3.Warning (not a sqlite3.Error) in older drivers. A statement
\* that reads the file of a corrupt dataset fails; SELECT 1 reads nothing.
ExecuteSql(db, text, legacy, corrupt) ==
  LET body == StatementBody(text)
      w    == Words(body)
  IN
  IF \E i \in 1..Len(body) : body[i] = ";"
  THEN EngineError(db, IF legacy THEN "other" ELSE "sqlite",
                   <<"Y","o","u"," ","c","a","n"," ","o","n","l","y"," ","e","x","e","c","u","t","e"," ","o","n","e"," ","s","t","a","t","e","m","e","n","t"," ","a","t"," ","a"," ","t","i","m","e",".">>)
  ELSE IF w = <<>> THEN EngineRows(db, <<>>, <<>>)
  ELSE IF Upper(w[1]) = <<"S","E","L","E","C","T">>
  THEN IF Len(w) = 2 /\ w[2] = <<"1">>
       THEN EngineRows(db, <<<<"1">>>>, <<<<IntCell(1)>>>>)
       ELSE IF Len(w) = 4 /\ w[2] = <<"*">> /\ Upper(w[3]) = <<"F","R","O","M">>
       THEN LET i == FindTable(db, w[4]) IN
            IF corrupt THEN EngineError(db, "sqlite", <<"f","i","l","e"," ","i","s"," ","n","o","t"," ","a"," ","d","a","t","a","b","a","s","e">>)
            ELSE IF i = 0
            THEN EngineError(db, "sqlite", <<"n","o"," ","s","u","c","h"," ","t","a","b","l","e",":"," ">> \o w[4])
            ELSE EngineRows(db, [c \in 1..Len(db.tables[i].cols) |-> db.tables[i].cols[c].name],
                            db.tables[i].rows)
       ELSE EngineError(db, "sqlite", <<"i","n","c","o","m","p","l","e","t","e"," ","i","n","p","u","t">>)
  ELSE IF Upper(w[1]) = <<"D","R","O","P">> /\ Len(w) = 3 /\ Upper(w[2]) = <<"T","A","B","L","E">>
  THEN LET i == FindTable(db, w[3]) IN
       IF corrupt THEN EngineError(db, "sqlite", <<"f","i","l","e"," ","i","s"," ","n","o","t"," ","a"," ","d","a","t","a","b","a","s","e">>)
       ELSE IF i = 0
       THEN EngineError(db, "sqlite", <<"n","o"," ","s","u","c","h"," ","t","a","b","l","e",":"," ">> \o w[3])
       ELSE EngineRows([tables |-> RemoveAt(db.tables, i)], <<>>, <<>>)
  ELSE EngineError(db, "sqlite", <<"n","e","a","r"," ","\"">> \o w[1] \o <<"\"",":"," ","s","y","n","t","a","x"," ","e","r","r","o","r">>)

\* the body of an SQL string literal after its opening quote: '' is one quote,
\* a single ' closes the literal
RECURSIVE LiteralBody(_)
LiteralBody(s) ==
  IF s = <<>> THEN [ok |-> FALSE, val |-> <<>>, rest |-> <<>>]
  ELSE IF s[1] = "'"
  THEN IF Len(s) >= 2 /\ s[2] = "'"
       THEN LET r == LiteralBody(SubSeq(s, 3, Len(s)))
            IN [ok |-> r.ok, val |-> <<"'">> \o r.val, rest |-> r.rest]
       ELSE [ok |-> TRUE, val |-> <<>>, rest |-> Tail(s)]
  ELSE LET r == LiteralBody(Tail(s))
       IN [ok |-> r.ok, val |-> <<s[1]>> \o r.val, rest |-> r.rest]

\* cursor.execute of a "PRAGMA table_info('<literal>');" text: the columns of
\* the table the literal names (none when there is no such table), or a syntax
\* error when the text is not one well-formed literal in parentheses
ExecutePragma(db, text) ==
  LET prefix == <<"P","R","A","G","M","A"," ","t","a","b","l","e","_","i","n","f","o","(","'">> IN
  IF ~StartsWith(text, prefix)
  THEN EngineError(db, "sqlite", <<"s","y","n","t","a","x"," ","e","r","r","o","r">>)
  ELSE LET lit == LiteralBody(SubSeq(text, Len(prefix) + 1, Len(text))) IN
       IF ~lit.ok \/ Strip(lit.rest) \notin {<<")">>, <<")",";">>}
       THEN EngineError(db, "sqlite", <<"s","y","n","t","a","x"," ","e","r","r","o","r">>)
       ELSE LET i == FindTable(db, lit.val) IN
            IF i = 0 THEN EngineRows(db, <<>>, <<>>)
            ELSE EngineRows(db, db.tables[i].cols, <<>>)

\* ------------------------------------------------------------- file system
DB_FILE == <<"C","h","i","n","o","o","k",".","d","b">>

ZipPath == <<"c","h","i","n","o","o","k",".","z","i","p">>

FileEntry(data) == [kind |-> "file", data |-> data]
DirEntry        == [kind |-> "dir",  data |-> EmptyDb]
ZipEntry        == [kind |-> "zip",  data |-> EmptyDb]

PutPath(files, p, e) == [x \in (DOMAIN files) \cup {p} |-> IF x = p THEN e ELSE files[x]]

RemovePath(files, p) == [x \in (DOMAIN files) \ {p} |-> files[x]]

\* Path.rename: the entry moves from src to dst
RenamePath(files, src, dst) == RemovePath(PutPath(files, dst, files[src]), src)

\* Path(p).name: the part after the last "/"
RECURSIVE PathName(_)
PathName(p) ==
  IF \E i \in 1..Len(p) : p[i] = "/"
  THEN PathName(SubSeq(p, (CHOOSE i \in 1..Len(p) : p[i] = "/" /\ \A j \in 1..(i - 1) : p[j] # "/") + 1, Len(p)))
  ELSE p

\* the directories a path lies in
ParentDirs(p) == {SubSeq(p, 1, i - 1) : i \in {j \in 1..Len(p) : p[j] = "/"}}

\* the paths inside directory d
Inside(files, d) == {x \in DOMAIN files : StartsWith(x, d \o <<"/">>)}

\* the dataset a connection to DB_FILE sees: the file's content, and an empty
\* database when there is no file
Dataset(files) ==
  IF DB_FILE \in DOMAIN files /\ files[DB_FILE].kind = "file" THEN files[DB_FILE].data ELSE EmptyDb

\* sqlite3.connect(DB_FILE): fails when the file cannot be opened, creates an
\* empty database file when there is none
GetDbConnection(files, fault) ==
  IF fault = "connect"
  THEN [exc |-> "sqlite", msg |-> <<"u","n","a","b","l","e"," ","t","o"," ","o","p","e","n"," ","d","a","t","a","b","a","s","e"," ","f","i","l","e">>, files |-> files]
  ELSE [exc |-> "none", msg |-> <<>>,
        files |-> IF DB_FILE \in DOMAIN files THEN files ELSE PutPath(files, DB_FILE, FileEntry(EmptyDb))]

\* the dataset file after a statement left the dataset as db
StoreDataset(files, db) ==
  IF Dataset(files) = db THEN files ELSE PutPath(files, DB_FILE, FileEntry(db))

\* --------------------------------------------------------------- bootstrap
\* zip_ref.extract(member, path="."): creates the member's directories and file
Extract(files, member, data) ==
  IF (member \in DOMAIN files /\ files[member].kind = "dir")
     \/ \E d \in ParentDirs(member) : d \in DOMAIN files /\ files[d].kind # "dir"
  THEN [raised |-> TRUE, files |-> files]
  ELSE [raised |-> FALSE,
        files |-> [x \in (DOMAIN files) \cup ParentDirs(member) \cup {member} |->
                     IF x = member THEN FileEntry(data)
                     ELSE IF x \in ParentDirs(member) THEN DirEntry
                     ELSE files[x]]]

\* the first member whose name ends with ".db", <<>> when there is none
FirstDbMember(members) ==
  IF \E i \in 1..Len(members) : EndsWith(members[i], <<".","d","b">>)
  THEN members[CHOOSE i \in 1..Len(members) :
                 EndsWith(members[i], <<".","d","b">>) /\ \A j \in 1..(i - 1) : ~EndsWith(members[j], <<".","d","b">>)]
  ELSE <<>>

\* the renaming of the extracted file to DB_FILE
Relocate(files, member) ==
  LET target == PathName(member) IN
  IF PathName(member) = PathName(DB_FILE) THEN [raised |-> FALSE, files |-> files]
  ELSE IF target \in DOMAIN files /\ files[target].kind = "dir"
  THEN LET src == target \o <<"/">> \o PathName(DB_FILE) IN
       IF src \notin DOMAIN files THEN [raised |-> TRUE, files |-> files]
       ELSE LET moved == RenamePath(files, src, DB_FILE) IN
            IF Inside(moved, target) # {} THEN [raised |-> TRUE, files |-> moved]
            ELSE [raised |-> FALSE, files |-> RemovePath(moved, target)]
  ELSE IF member \in DOMAIN files
  THEN [raised |-> FALSE, files |-> RenamePath(files, member, DB_FILE)]
  ELSE [raised |-> FALSE, files |-> files]

\* download_chinook_db: downloadOk is the outcome of the HTTP request, members
\* and data the archive's name list and the content of its database file
DownloadChinookDb(files, downloadOk, members, data) ==
  IF DB_FILE \in DOMAIN files THEN [raised |-> FALSE, files |-> files]
  ELSE IF ~downloadOk THEN [raised |-> TRUE, files |-> files]
  ELSE LET zipped == PutPath(files, ZipPath, ZipEntry)
           member == FirstDbMember(members)
       IN
       IF member = <<>> THEN [raised |-> TRUE, files |-> zipped]
       ELSE LET x == Extract(zipped, member, data) IN
            IF x.raised THEN x
            ELSE LET r == Relocate(x.files, member) IN
                 IF r.raised THEN r
                 ELSE [raised |-> FALSE, files |-> RemovePath(r.files, ZipPath)]

\* ------------------------------------------------------- schema introspection
\* where the storage engine fails during a call: nowhere, in sqlite3.connect,
\* in every cursor.execute (a corrupt file), in the fetchall of the statement's
\* rows, or (a non-sqlite exception) while the rows are formatted
Faults == {"none", "connect", "execute", "fetch", "format"}

\* _get_table_names: the user tables in catalog order
GetTableNames(db, fault) ==
  IF fault = "execute"
  THEN [exc |-> "sqlite", msg |-> <<"f","i","l","e"," ","i","s"," ","n","o","t"," ","a"," ","d","a","t","a","b","a","s","e">>, names |-> <<>>]
  ELSE LET user == {i \in 1..Len(db.tables) : ~LikeSqlitePrefix(db.tables[i].name)}
           Nth(k) == CHOOSE i \in user : Cardinality({j \in user : j < i}) = k - 1
       IN [exc |-> "none", msg |-> <<>>,
           names |-> [k \in 1..Cardinality(user) |-> db.tables[Nth(k)].name]]

InSeq(x, seq) == \E i \in 1..Len(seq) : seq[i] = x

\* the line of one column
ColumnLine(col) ==
  <<" "," ","-"," ">> \o col.name \o <<" ","(">> \o col.type \o <<")">>
  \o (IF col.pk # 0 THEN <<" ","P","R","I","M","A","R","Y"," ","K","E","Y">> ELSE <<>>)
  \o (IF col.notnull # 0 THEN <<" ","N","O","T"," ","N","U","L","L">> ELSE <<>>)
  \o (IF col.hasDflt THEN <<" ","D","E","F","A","U","L","T"," ">> \o col.dflt ELSE <<>>)
  \o <<"\n">>

RECURSIVE ColumnLines(_)
ColumnLines(cols) == IF cols = <<>> THEN <<>> ELSE ColumnLine(Head(cols)) \o ColumnLines(Tail(cols))

\* what _get_table_schema hands back: its text, whether it raised instead,
\* whether the text reports a failure, the class of the exception met
\* ("none", "sqlite", "other"), and the statements it ran
SchemaText(text, kind, exc, executed) ==
  [raised |-> FALSE, kind |-> kind, exc |-> exc, text |-> text, executed |-> executed]

SchemaRaised(executed) ==
  [raised |-> TRUE, kind |-> "fail", exc |-> "sqlite", text |-> <<>>, executed |-> executed]

\* _get_table_schema
GetTableSchema(db, table_name, fault) ==
  LET names  == GetTableNames(db, fault)
      pragma == ExecutePragma(db, <<"P","R","A","G","M","A"," ","t","a","b","l","e","_","i","n","f","o","(","'">> \o table_name \o <<"'",")",";">>)
      failed(msg, n) ==
        SchemaText(<<"E","r","r","o","r"," ","f","e","t","c","h","i","n","g"," ","s","c","h","e","m","a"," ","f","o","r"," ","t","a","b","l","e"," ","'">> \o table_name \o <<"'",":"," ">> \o msg,
                   "fail", "sqlite", n)
  IN
  IF names.exc # "none" THEN failed(names.msg, 1)
  ELSE IF ~InSeq(table_name, names.names)
  THEN SchemaText(<<"T","a","b","l","e"," ","'">> \o table_name \o <<"'"," ","n","o","t"," ","f","o","u","n","d",".">>, "fail", "none", 1)
  ELSE IF pragma.exc # "none" THEN failed(pragma.msg, 2)
  ELSE IF fault = "fetch" THEN SchemaRaised(2)
  ELSE IF pragma.cols = <<>>
  THEN SchemaText(<<"T","a","b","l","e"," ","'">> \o table_name \o <<"'"," ","n","o","t"," ","f","o","u","n","d"," ","o","r"," ","h","a","s"," ","n","o"," ","c","o","l","u","m","n","s",".">>, "fail", "none", 2)
  ELSE SchemaText(<<"S","c","h","e","m","a"," ","f","o","r"," ","t","a","b","l","e"," ">> \o table_name \o <<":","\n">> \o ColumnLines(pragma.cols),
                  "ok", "none", 2)

\* the result of a handler: its text, whether it raised instead of returning,
\* whether the text reports a failure, the class of the exception met, the
\* connections it opened, the statements it handed to the engine, and the
\* files it leaves
Result(text, raised, kind, exc, opened, executed, files) ==
  [text |-> text, raised |-> raised, kind |-> kind, exc |-> exc, opened |-> opened,
   executed |-> executed, files |-> files]

\* the separator list_tables_schema appends to every block
Separator == <<"\n","-","-","-","\n","\n">>

\* the loop with the separator between consecutive blocks only
RECURSIVE SchemaBlocks_Between(_, _, _)
SchemaBlocks_Between(db, names, fault) ==
  IF names = <<>> THEN SchemaText(<<>>, "ok", "none", 0)
  ELSE LET b    == GetTableSchema(db, Head(names), fault)
           rest == SchemaBlocks_Between(db, Tail(names), fault)
       IN IF b.raised THEN b
          ELSE IF rest.raised THEN SchemaRaised(b.executed + rest.executed)
          ELSE SchemaText(b.text \o (IF Tail(names) = <<>> THEN <<>> ELSE Separator) \o rest.text,
                          IF b.kind = "fail" \/ rest.kind = "fail" THEN "fail" ELSE "ok",
                          IF b.exc # "none" THEN b.exc ELSE rest.exc,
                          b.executed + rest.executed)

\* the loop of list_tables_schema over the table names
RECURSIVE SchemaBlocks(_, _, _)
SchemaBlocks(db, names, fault) ==
  IF names = <<>> THEN SchemaText(<<>>, "ok", "none", 0)
  ELSE LET b    == GetTableSchema(db, Head(names), fault)
           rest == SchemaBlocks(db, Tail(names), fault)
       IN IF b.raised THEN b
          ELSE IF rest.raised THEN SchemaRaised(b.executed + rest.executed)
          ELSE SchemaText(b.text \o Separator \o rest.text,
                          IF b.kind = "fail" \/ rest.kind = "fail" THEN "fail" ELSE "ok",
                          IF b.exc # "none" THEN b.exc ELSE rest.exc,
                          b.executed + rest.executed)

\* list_tables_schema
ListTablesSchema(files, fault) ==
  LET conn == GetDbConnection(files, fault) IN
  IF conn.exc # "none" THEN Result(<<>>, TRUE, "fail", conn.exc, 0, 0, conn.files)
  ELSE LET db     == Dataset(conn.files)
           names  == GetTableNames(db, fault)
           blocks == SchemaBlocks(db, names.names, fault)
       IN
       IF names.exc # "none" THEN Result(<<>>, TRUE, "fail", names.exc, 1, 1, conn.files)
       ELSE IF blocks.raised
       THEN Result(<<>>, TRUE, "fail", blocks.exc, 1, 1 + blocks.executed, conn.files)
       ELSE Result(Strip(<<"D","a","t","a","b","a","s","e"," ","S","c","h","e","m","a",":","\n","\n">> \o blocks.text), FALSE, blocks.kind, blocks.exc,
                   1, 1 + blocks.executed, conn.files)

\* get_specific_table_schema
GetSpecificTableSchema(files, table_name, fault) ==
  LET conn == GetDbConnection(files, fault) IN
  IF conn.exc # "none" THEN Result(<<>>, TRUE, "fail", conn.exc, 0, 0, conn.files)
  ELSE LET s == GetTableSchema(Dataset(conn.files), table_name, fault) IN
       Result(Strip(s.text), s.raised, s.kind, s.exc, 1, s.executed, conn.files)

\* ------------------------------------------------------------- query gateway
\* the rejection text without its tag
Rejection_NoTag == <<"O","n","l","y"," ","S","E","L","E","C","T"," ","q","u","e","r","i","e","s"," ","a","r","e"," ","a","l","l","o","w","e","d",".">>

Rejection == <<"E","r","r","o","r",":"," ","O","n","l","y"," ","S","E","L","E","C","T"," ","q","u","e","r","i","e","s"," ","a","r","e"," ","a","l","l","o","w","e","d",".">>

NoResults == <<"Q","u","e","r","y"," ","e","x","e","c","u","t","e","d"," ","s","u","c","c","e","s","s","f","u","l","l","y",","," ","b","u","t"," ","r","e","t","u","r","n","e","d"," ","n","o"," ","r","e","s","u","l","t","s",".">>

\* the gate looking for SELECT anywhere in the text ("SELECT" in ...)
IsSelect_Contains(sql_query) ==
  LET u == Upper(Strip(sql_query)) IN
  \E i \in 1..Len(u) : StartsWith(SubSeq(u, i, Len(u)), <<"S","E","L","E","C","T">>)

\* the gate: sql_query.strip().upper().startswith("SELECT")
IsSelect(sql_query) == StartsWith(Upper(Strip(sql_query)), <<"S","E","L","E","C","T">>)

\* the lines of the rows
RECURSIVE RowLines(_)
RowLines(rows) ==
  IF rows = <<>> THEN <<>>
  ELSE Join([i \in 1..Len(Head(rows)) |-> Str(Head(rows)[i])], <<","," ">>) \o <<"\n">> \o RowLines(Tail(rows))

\* the underline as long as the number of columns ("-" * len(column_names))
FormatRows_ColumnCount(column_names, rows) ==
  <<"Q","u","e","r","y"," ","R","e","s","u","l","t","s",":","\n">>
  \o Join(column_names, <<","," ">>) \o <<"\n">>
  \o Repeat("-", Len(column_names)) \o <<"\n">>
  \o RowLines(rows)

\* the text of a non-empty result
FormatRows(column_names, rows) ==
  <<"Q","u","e","r","y"," ","R","e","s","u","l","t","s",":","\n">>
  \o Join(column_names, <<","," ">>) \o <<"\n">>
  \o Repeat("-", Len(Join(column_names, <<","," ">>))) \o <<"\n">>
  \o RowLines(rows)

\* the except clauses with "except Exception" first, which then catches all
Caught_ExceptionFirst(exc, msg) == <<"A","n"," ","u","n","e","x","p","e","c","t","e","d"," ","e","r","r","o","r"," ","o","c","c","u","r","r","e","d",":"," ">> \o msg

\* the two except clauses of run_sql_query
Caught(exc, msg) ==
  IF exc = "sqlite" THEN <<"S","Q","L"," ","E","r","r","o","r",":"," ">> \o msg ELSE <<"A","n"," ","u","n","e","x","p","e","c","t","e","d"," ","e","r","r","o","r"," ","o","c","c","u","r","r","e","d",":"," ">> \o msg

\* the try block of run_sql_query
ExecuteQuery(files, sql_query, fault, legacy) ==
  LET conn == GetDbConnection(files, fault) IN
  IF conn.exc # "none"
  THEN Result(Caught(conn.exc, conn.msg), FALSE, "fail", conn.exc, 0, 0, conn.files)
  ELSE LET r     == ExecuteSql(Dataset(conn.files), sql_query, legacy, fault = "execute")
           after == StoreDataset(conn.files, r.db)
       IN
       IF r.exc # "none" THEN Result(Caught(r.exc, r.msg), FALSE, "fail", r.exc, 1, 1, after)
       ELSE IF fault = "fetch"
       THEN Result(Caught("sqlite", <<"d","a","t","a","b","a","s","e"," ","d","i","s","k"," ","i","m","a","g","e"," ","i","s"," ","m","a","l","f","o","r","m","e","d">>), FALSE, "fail", "sqlite",
                   1, 1, after)
       ELSE IF r.rows = <<>> THEN Result(NoResults, FALSE, "ok", "none", 1, 1, after)
       ELSE IF fault = "format"
       THEN Result(Caught("other", <<"o","u","t"," ","o","f"," ","m","e","m","o","r","y">>), FALSE, "fail", "other", 1, 1, after)
       ELSE Result(FormatRows(r.cols, r.rows), FALSE, "ok", "none", 1, 1, after)

\* run_sql_query without its gate
RunSqlQuery_NoGate(files, sql_query, fault, legacy) == ExecuteQuery(files, sql_query, fault, legacy)

\* run_sql_query
RunSqlQuery(files, sql_query, fault, legacy) ==
  IF ~IsSelect(sql_query) THEN Result(Rejection, FALSE, "fail", "none", 0, 0, files)
  ELSE ExecuteQuery(files, sql_query, fault, legacy)

\* ------------------------------------------------------------------ inputs
\* the statements a client sends
Queries ==
  { <<"S","E","L","E","C","T"," ","1">>, <<" "," ","s","e","l","e","c","t"," ","1","\n">>, <<"S","E","L","E","C","T"," ","*"," ","F","R","O","M"," ","A","r","t","i","s","t">>, <<"S","E","L","E","C","T"," ","*"," ","F","R","O","M"," ","N","o","S","u","c","h","T","a","b","l","e">>,
    <<"S","E","L","E","C","T"," ","*"," ","F","R","O","M"," ","S","e","l","e","c","t","e","d">>, <<"s","e","l","e","c","t"," ","*"," ","f","r","o","m"," ","t",";">>, <<"D","R","O","P"," ","T","A","B","L","E"," ","A","r","t","i","s","t">>,
    <<"D","R","O","P"," ","T","A","B","L","E"," ","S","e","l","e","c","t","e","d">>, <<"\t","d","r","o","p"," ","t","a","b","l","e"," ","t">>, <<"S","E","L","E","C","T"," ","1",";"," ","D","R","O","P"," ","T","A","B","L","E"," ","A","r","t","i","s","t">>,
    <<"S","E","L","E","C","T","X">>, <<>> }

\* the table names a client asks the schema of
AskedNames ==
  { <<"A","r","t","i","s","t">>, <<"a","r","t","i","s","t">>, <<"N","o","S","u","c","h","T","a","b","l","e">>, <<"s","q","l","i","t","e","_","s","e","q","u","e","n","c","e">>, <<"t">>, <<"a","'","b">>, <<"x","'","'","y">> }

\* the name lists of the archives the download may deliver
Archives ==
  { <<<<"c","h","i","n","o","o","k",".","d","b">>>>, <<<<"d","a","t","a","/","c","h","i","n","o","o","k",".","d","b">>>>, <<<<"d","a","t","a","/","C","h","i","n","o","o","k",".","d","b">>>>,
    <<<<"r","e","a","d","m","e",".","t","x","t">>>>, <<<<"r","e","a","d","m","e",".","t","x","t">>, <<"C","h","i","n","o","o","k",".","d","b">>>> }

NoFiles == [x \in {} |-> DirEntry]

\* the working directory at process start: empty, holding the dataset file,
\* or holding a directory chinook.db (empty or with a Chinook.db inside)
InitialFiles ==
  {NoFiles}
  \cup {PutPath(NoFiles, DB_FILE, FileEntry(d)) : d \in Datasets}
  \cup {PutPath(NoFiles, <<"c","h","i","n","o","o","k",".","d","b">>, DirEntry)}
  \cup {PutPath(PutPath(NoFiles, <<"c","h","i","n","o","o","k",".","d","b">>, DirEntry), <<"c","h","i","n","o","o","k",".","d","b","/","C","h","i","n","o","o","k",".","d","b">>, FileEntry(DbQuote))}

\* the last call and what it returned
Call(op, arg, fault, r, closed) ==
  [op |-> op, arg |-> arg, fault |-> fault, text |-> r.text, raised |-> r.raised,
   kind |-> r.kind, exc |-> r.exc, opened |-> r.opened, executed |-> r.executed, closed |-> closed]

NoCall == Call("none", <<>>, "none", Result(<<>>, FALSE, "ok", "none", 0, 0, NoFiles), 0)

\* ------------------------------------------------------------ state machine
Init ==
  /\ phase = "boot"
  /\ fs \in InitialFiles
  /\ openConns = 0
  /\ legacyDriver \in BOOLEAN
  /\ ret = NoCall

\* the __main__ block: asyncio.run(pre_run_setup()) and then mcp_server.run;
\* an exception of the setup ends the process
Main ==
  /\ phase = "boot"
  /\ \E downloadOk \in BOOLEAN, members \in Archives :
       LET d == DownloadChinookDb(fs, downloadOk, members, DbMusic) IN
       /\ fs' = d.files
       /\ phase' = IF d.raised THEN "stopped" ELSE "serving"
  /\ UNCHANGED <<openConns, legacyDriver, ret>>

\* the connections of a call that are closed when it returns: the with block's
\* Connection.__exit__ commits or rolls back and does not close, so the
\* connection is closed only when the interpreter finalizes the unreferenced
\* object, at the return (collected) or at some later time
ClosedAtReturn(opened, collected) == IF collected THEN opened ELSE 0

\* what every handler call does to the state
Serve(op, arg, fault, r, collected) ==
  /\ fs' = r.files
  /\ openConns' = openConns + r.opened - ClosedAtReturn(r.opened, collected)
  /\ ret' = Call(op, arg, fault, r, ClosedAtReturn(r.opened, collected))
  /\ UNCHANGED <<phase, legacyDriver>>

run_sql_query ==
  /\ phase = "serving"
  /\ openConns < MaxOpen
  /\ \E sql_query \in Queries, fault \in Faults, collected \in BOOLEAN :
       Serve("run_sql_query", sql_query, fault, RunSqlQuery(fs, sql_query, fault, legacyDriver), collected)

list_tables_schema ==
  /\ phase = "serving"
  /\ openConns < MaxOpen
  /\ \E fault \in Faults \ {"format"}, collected \in BOOLEAN :
       Serve("list_tables_schema", <<>>, fault, ListTablesSchema(fs, fault), collected)

get_specific_table_schema ==
  /\ phase = "serving"
  /\ openConns < MaxOpen
  /\ \E table_name \in AskedNames, fault \in Faults \ {"format"}, collected \in BOOLEAN :
       Serve("get_specific_table_schema", table_name, fault,
             GetSpecificTableSchema(fs, table_name, fault), collected)

\* the interpreter finalizes an unreferenced connection, which closes it
Finalize ==
  /\ openConns > 0
  /\ openConns' = openConns - 1
  /\ UNCHANGED <<phase, fs, legacyDriver, ret>>

Next == Main \/ run_sql_query \/ list_tables_schema \/ get_specific_table_schema \/ Finalize

Spec == Init /\ [][Next]_vars

\* ------------------------------------------------------------------ claims
\* the text split at every "\n" (str.split("\n"))
RECURSIVE Lines(_)
Lines(s) ==
  IF \E i \in 1..Len(s) : s[i] = "\n"
  THEN LET n == CHOOSE i \in 1..Len(s) : s[i] = "\n" /\ \A j \in 1..(i - 1) : s[j] # "\n"
       IN <<SubSeq(s, 1, n - 1)>> \o Lines(SubSeq(s, n + 1, Len(s)))
  ELSE <<s>>

Served(op) == ret.op = op /\ ~ret.raised

\* C1: a run_sql_query text whose trimmed, upper-cased form does not begin
\* with SELECT is answered with exactly the rejection text, and the call opens
\* no connection and executes no statement.
C1_RejectedWithoutAccess ==
  (ret.op = "run_sql_query" /\ ~StartsWith(Upper(Strip(ret.arg)), <<"S","E","L","E","C","T">>))
    => /\ ~ret.raised
       /\ ret.text = <<"E","r","r","o","r",":"," ","O","n","l","y"," ","S","E","L","E","C","T"," ","q","u","e","r","i","e","s"," ","a","r","e"," ","a","l","l","o","w","e","d",".">>
       /\ ret.opened = 0
       /\ ret.executed = 0

C1_Witness ==
  /\ ret.op = "run_sql_query"
  /\ ret.arg = <<"\t","d","r","o","p"," ","t","a","b","l","e"," ","t">>
  /\ ret.text = <<"E","r","r","o","r",":"," ","O","n","l","y"," ","S","E","L","E","C","T"," ","q","u","e","r","i","e","s"," ","a","r","e"," ","a","l","l","o","w","e","d",".">>
  /\ FindTable(Dataset(fs), <<"t">>) # 0

\* C2: no call of the service changes the dataset's tables and rows; after
\* DROP TABLE Artist was rejected, a SELECT on Artist still succeeds.
C2_DatasetUnchanged ==
  [][/\ phase = "serving" => Dataset(fs') = Dataset(fs)
     /\ ( /\ ret.op = "run_sql_query" /\ ret.arg = <<"D","R","O","P"," ","T","A","B","L","E"," ","A","r","t","i","s","t">>
          /\ FindTable(Dataset(fs), <<"A","r","t","i","s","t">>) # 0
          /\ ret'.op = "run_sql_query" /\ ret'.arg = <<"S","E","L","E","C","T"," ","*"," ","F","R","O","M"," ","A","r","t","i","s","t">>
          /\ ret'.fault = "none" )
        => ret'.kind = "ok" /\ StartsWith(ret'.text, <<"Q","u","e","r","y"," ","R","e","s","u","l","t","s",":","\n","A","r","t","i","s","t","I","d",","," ","N","a","m","e","\n">>)]_vars

C2_Witness ==
  /\ ret.op = "run_sql_query"
  /\ ret.arg = <<"D","R","O","P"," ","T","A","B","L","E"," ","A","r","t","i","s","t">>
  /\ ret.text = Rejection
  /\ FindTable(Dataset(fs), <<"A","r","t","i","s","t">>) # 0

\* C3: every call opens at most one connection and has closed it when it
\* returns, so that no connection is open after completed calls.
C3_ConnectionsReleased ==
  ret.op # "none" => (ret.opened <= 1 /\ ret.closed = ret.opened /\ openConns = 0)

\* C4: a statement that passes the gate is always answered with a text: an
\* engine error with "SQL Error: ...", any other fault with "An unexpected
\* error occurred: ...", and SELECT * FROM NoSuchTable with "SQL Error:...".
C4_FailuresAreText ==
  (ret.op = "run_sql_query" /\ StartsWith(Upper(Strip(ret.arg)), <<"S","E","L","E","C","T">>))
    => /\ ~ret.raised
       /\ ret.exc = "sqlite" => StartsWith(ret.text, <<"S","Q","L"," ","E","r","r","o","r",":"," ">>)
       /\ ret.exc = "other" => StartsWith(ret.text, <<"A","n"," ","u","n","e","x","p","e","c","t","e","d"," ","e","r","r","o","r"," ","o","c","c","u","r","r","e","d",":"," ">>)
       /\ ret.fault = "connect" => ret.exc = "sqlite"
       /\ ret.arg = <<"S","E","L","E","C","T"," ","*"," ","F","R","O","M"," ","N","o","S","u","c","h","T","a","b","l","e">> => StartsWith(ret.text, <<"S","Q","L"," ","E","r","r","o","r",":">>)

C4_Witness ==
  /\ ret.op = "run_sql_query"
  /\ ret.arg = <<"S","E","L","E","C","T"," ","*"," ","F","R","O","M"," ","N","o","S","u","c","h","T","a","b","l","e">>
  /\ ret.text = <<"S","Q","L"," ","E","r","r","o","r",":"," ","n","o"," ","s","u","c","h"," ","t","a","b","l","e",":"," ","N","o","S","u","c","h","T","a","b","l","e">>

\* C5: when a catalog query of a schema read fails with an engine error, both
\* schema reads return an error text and do not raise.
C5_CatalogFailureIsText ==
  ( /\ ret.op \in {"list_tables_schema", "get_specific_table_schema"}
    /\ ret.exc = "sqlite"
    /\ ret.fault # "connect" )
    => ~ret.raised /\ ret.kind = "fail"

\* C6: the service is serving only with a dataset file at DB_FILE.
C6_ServingHasDataset ==
  phase = "serving" => (DB_FILE \in DOMAIN fs /\ fs[DB_FILE].kind = "file")

\* what the engine answers to the statement of the last call
Answer == ExecuteSql(Dataset(fs), ret.arg, legacyDriver, FALSE)

RowsReturned == Served("run_sql_query") /\ ret.kind = "ok" /\ ret.text # NoResults

RowText(row) == Join([i \in 1..Len(row) |-> Str(row[i])], <<","," ">>)

\* C7 as claimed: the text of a result with rows is the header line (its
\* first line), the underline of the header's length, and one line per row.
C7_HeaderIsFirstLine ==
  RowsReturned =>
    LET l == Lines(ret.text) IN
    /\ l[1] = Join(Answer.cols, <<","," ">>)
    /\ l[2] = Repeat("-", Len(l[1]))
    /\ \A i \in 1..Len(Answer.rows) : l[2 + i] = RowText(Answer.rows[i])

\* C7 as amended: the text of a result with rows is the line "Query Results:",
\* then the header line, the underline of the header's length, and one line
\* per row in the engine's order, every line closed by a newline.
C7_TitleHeaderUnderlineRows ==
  RowsReturned =>
    LET l == Lines(ret.text) IN
    /\ Len(l) = 4 + Len(Answer.rows)
    /\ l[1] = <<"Q","u","e","r","y"," ","R","e","s","u","l","t","s",":">>
    /\ l[2] = Join(Answer.cols, <<","," ">>)
    /\ Len(l[3]) = Len(l[2]) /\ \A i \in 1..Len(l[3]) : l[3][i] = "-"
    /\ \A i \in 1..Len(Answer.rows) : l[3 + i] = RowText(Answer.rows[i])
    /\ l[Len(l)] = <<>>
    /\ Strip(ret.arg) = <<"S","E","L","E","C","T"," ","1">> => ret.text = <<"Q","u","e","r","y"," ","R","e","s","u","l","t","s",":","\n","1","\n","-","\n","1","\n">>

C7_Witness ==
  /\ RowsReturned
  /\ ret.arg = <<"S","E","L","E","C","T"," ","*"," ","F","R","O","M"," ","A","r","t","i","s","t">>
  /\ ret.text = <<"Q","u","e","r","y"," ","R","e","s","u","l","t","s",":","\n","A","r","t","i","s","t","I","d",","," ","N","a","m","e","\n","-","-","-","-","-","-","-","-","-","-","-","-","-","-","\n","1",","," ","A","C","/","D","C","\n","1","2",","," ","N","o","n","e","\n">>

\* the user tables of the dataset, as listTables() gives them
ListedNames == GetTableNames(Dataset(fs), "none").names

FailureText == ret.op # "none" /\ ~ret.raised /\ ret.kind = "fail"

NotFoundTag(name) == <<"T","a","b","l","e"," ","'">> \o name \o <<"'"," ","n","o","t"," ","f","o","u","n","d",".">>

\* C8 as claimed: every failure text begins with one of the four tags.
C8_FourTags ==
  FailureText =>
    \/ StartsWith(ret.text, <<"E","r","r","o","r",":">>)
    \/ StartsWith(ret.text, <<"S","Q","L"," ","E","r","r","o","r",":">>)
    \/ StartsWith(ret.text, <<"A","n"," ","u","n","e","x","p","e","c","t","e","d"," ","e","r","r","o","r"," ","o","c","c","u","r","r","e","d",":">>)
    \/ StartsWith(ret.text, NotFoundTag(ret.arg))
    \/ \E i \in 1..Len(ListedNames) : StartsWith(ret.text, NotFoundTag(ListedNames[i]))

\* C8 as amended: a failure text of run_sql_query begins with "Error:",
\* "SQL Error:" or "An unexpected error occurred:"; a failure text of the
\* single-table schema read begins with "Table '{name}' not found" or with
\* "Error fetching schema for table '{name}':"; the text of the all-tables
\* read begins with "Database Schema:" also when a table's block is a failure.
C8_TagsPerOperation ==
  FailureText =>
    /\ ret.op = "run_sql_query" =>
         \/ StartsWith(ret.text, <<"E","r","r","o","r",":">>)
         \/ StartsWith(ret.text, <<"S","Q","L"," ","E","r","r","o","r",":">>)
         \/ StartsWith(ret.text, <<"A","n"," ","u","n","e","x","p","e","c","t","e","d"," ","e","r","r","o","r"," ","o","c","c","u","r","r","e","d",":">>)
    /\ ret.op = "get_specific_table_schema" =>
         \/ StartsWith(ret.text, <<"T","a","b","l","e"," ","'">> \o ret.arg \o <<"'"," ","n","o","t"," ","f","o","u","n","d">>)
         \/ StartsWith(ret.text, <<"E","r","r","o","r"," ","f","e","t","c","h","i","n","g"," ","s","c","h","e","m","a"," ","f","o","r"," ","t","a","b","l","e"," ","'">> \o ret.arg \o <<"'",":">>)
    /\ ret.op = "list_tables_schema" => StartsWith(ret.text, <<"D","a","t","a","b","a","s","e"," ","S","c","h","e","m","a",":">>)

C8_Witness ==
  /\ FailureText
  /\ ret.op = "get_specific_table_schema"
  /\ ret.arg = <<"t">>
  /\ ret.text = <<"E","r","r","o","r"," ","f","e","t","c","h","i","n","g"," ","s","c","h","e","m","a"," ","f","o","r"," ","t","a","b","l","e"," ","'","t","'",":"," ","f","i","l","e"," ","i","s"," ","n","o","t"," ","a"," ","d","a","t","a","b","a","s","e">>

\* the line of column c as the spec words it
SpecColumnLine(c) ==
  <<" "," ","-"," ">> \o c.name \o <<" ","(">> \o c.type \o <<")">>
  \o (IF c.pk # 0 THEN <<" ","P","R","I","M","A","R","Y"," ","K","E","Y">> ELSE <<>>)
  \o (IF c.notnull # 0 THEN <<" ","N","O","T"," ","N","U","L","L">> ELSE <<>>)
  \o (IF c.hasDflt THEN <<" ","D","E","F","A","U","L","T"," ">> \o c.dflt ELSE <<>>)

\* C9: the single-table schema is decided by membership in the table list:
\* "Table '{name}' not found." for an absent name, and for a present name the
\* block "Schema for table {name}:" with one line per column in catalog order.
C9_DecidedByMembership ==
  (Served("get_specific_table_schema") /\ ret.fault = "none") =>
    LET l == Lines(ret.text) IN
    IF ~InSeq(ret.arg, ListedNames)
    THEN ret.text = NotFoundTag(ret.arg)
    ELSE LET cols == Dataset(fs).tables[FindTable(Dataset(fs), ret.arg)].cols IN
         /\ l[1] = <<"S","c","h","e","m","a"," ","f","o","r"," ","t","a","b","l","e"," ">> \o ret.arg \o <<":">>
         /\ Len(l) = 1 + Len(cols)
         /\ \A i \in 1..Len(cols) : l[1 + i] = SpecColumnLine(cols[i])

\* the lines of the all-tables text that are the separator
SeparatorLines(l) == {i \in 1..Len(l) : l[i] = <<"-","-","-">>}

NthSeparator(l, k) ==
  CHOOSE i \in SeparatorLines(l) : Cardinality({j \in SeparatorLines(l) : j < i}) = k - 1

\* C10 as claimed: the all-tables text is the blocks of the listed tables with
\* a separator between consecutive blocks only: nothing before the first block,
\* and the last table's last column line at the end.
C10_SeparatorsBetweenOnly ==
  (Served("list_tables_schema") /\ ret.kind = "ok" /\ ListedNames # <<>>) =>
    LET l    == Lines(ret.text)
        last == Dataset(fs).tables[FindTable(Dataset(fs), ListedNames[Len(ListedNames)])].cols
    IN
    /\ l[1] = <<"S","c","h","e","m","a"," ","f","o","r"," ","t","a","b","l","e"," ">> \o ListedNames[1] \o <<":">>
    /\ Cardinality(SeparatorLines(l)) = Len(ListedNames) - 1
    /\ l[Len(l)] = SpecColumnLine(last[Len(last)])

\* C10 as amended: whenever it returns, the all-tables text is the line
\* "Database Schema:", an empty line, and then for every listed table, in list
\* order, its block followed by a "---" separator line, also after the last
\* block; surrounding whitespace is trimmed, so the text ends with "---" (and
\* is "Database Schema:" alone when no table is listed).
C10_HeaderAndSeparatorAfterEach ==
  Served("list_tables_schema") =>
    LET l == Lines(ret.text)
        n == Len(ListedNames)
        BlockStart(k) == IF k = 1 THEN 3 ELSE NthSeparator(l, k - 1) + 2
    IN
    /\ l[1] = <<"D","a","t","a","b","a","s","e"," ","S","c","h","e","m","a",":">>
    /\ Cardinality(SeparatorLines(l)) = n
    /\ n = 0 => ret.text = <<"D","a","t","a","b","a","s","e"," ","S","c","h","e","m","a",":">>
    /\ n > 0 => l[2] = <<>> /\ l[Len(l)] = <<"-","-","-">>
    /\ \A k \in 1..n :
         SubSeq(l, BlockStart(k), NthSeparator(l, k) - 1)
           = Lines(GetTableSchema(Dataset(fs), ListedNames[k], ret.fault).text)
    /\ \A k \in 1..(n - 1) : l[NthSeparator(l, k) + 1] = <<>>

C10_Witness ==
  /\ Served("list_tables_schema")
  /\ Len(ListedNames) = 2
  /\ ret.kind = "ok"
  /\ EndsWith(ret.text, <<" "," ","-"," ","I","d"," ","(","I","N","T","E","G","E","R",")"," ","P","R","I","M","A","R","Y"," ","K","E","Y","\n","\n","-","-","-">>)

====
